---- MODULE Spec2Model ----
(***************************************************************************)
(* Request admission (RateLimitMiddleware) and tenant usage governance     *)
(* (usage_tracking) of the Plant Intel backend.                            *)
(*                                                                         *)
(* Strings that the code takes apart (header values, paths, client keys)   *)
(* are sequences of one-character strings, so that split, strip,           *)
(* startswith and the f-string prefixes are computed, not assumed.         *)
(* Wall-clock time (time.time()) is a number of seconds, advanced by the   *)
(* environment in steps of TickSeconds; it never goes backwards.           *)
(***************************************************************************)
EXTENDS Integers, Sequences, FiniteSets, Bags, TLC

(***************************************************************************)
(* Bounds of the model.                                                    *)
(***************************************************************************)
\* granularity of the clock, in seconds
TickSeconds == 20
\* the clock stops here
MaxTime == 320
\* the middleware is constructed at time 0 and sees its first request at IdleUntil
IdleUntil == 240
\* requests_per_minute is a constructor argument, drawn from 1..MaxCeiling
MaxCeiling == 2
\* requests that are inside dispatch (awaiting call_next) at the same time
MaxInflight == 1

MaxConcurrent == 2

\* instants of the UTC clock in one calendar month
MonthUnits == 2
\* the UTC clock stops here
MaxUtc == 2
\* rows the usage_events table can hold
MaxEvents == 2

DayUnits == 1

(***************************************************************************)
(* Program constants of RateLimitMiddleware.                               *)
(***************************************************************************)
window_size == 60
cleanup_interval == 300
\* the literal 60 of the 429 response (retry_after, Retry-After, Reset)
RetryAfterLiteral == 60
StatusTooManyRequests == 429
StatusOK == 200

(***************************************************************************)
(* Python values.                                                          *)
(***************************************************************************)
\* Python's None (a header or attribute that is absent): a sequence no text equals
None == <<"None">>

\* str(None), as an f-string formats it
NoneText == <<"N", "o", "n", "e">>

Unknown == <<"u", "n", "k", "n", "o", "w", "n">>

UserPrefix == <<"u", "s", "e", "r", ":">>

IpPrefix == <<"i", "p", ":">>

HealthPrefix == <<"/", "a", "p", "i", "/", "v", "1", "/", "h", "e", "a", "l", "t", "h">>

\* characters str.strip() removes
Whitespace == {" ", "\t", "\n", "\r"}

\* f"{v}"
Format(v) == IF v = None THEN NoneText ELSE v

\* bool(v) for None and strings
Truthy(v) == v # None /\ v # <<>>

\* dict.get(key, default)
DictGet(d, key, default) == IF key \in DOMAIN d THEN d[key] ELSE default

\* s.startswith(p)
StartsWith(s, p) == Len(s) >= Len(p) /\ SubSeq(s, 1, Len(p)) = p

\* s.split(",")[0]: the text before the first comma
RECURSIVE FirstToken(_)
FirstToken(s) ==
    IF s = <<>> \/ Head(s) = "," THEN <<>> ELSE <<Head(s)>> \o FirstToken(Tail(s))

RECURSIVE LStrip(_)
LStrip(s) == IF s # <<>> /\ Head(s) \in Whitespace THEN LStrip(Tail(s)) ELSE s

RECURSIVE RStrip(_)
RStrip(s) ==
    IF s # <<>> /\ s[Len(s)] \in Whitespace THEN RStrip(SubSeq(s, 1, Len(s) - 1)) ELSE s

\* s.strip()
Strip(s) == RStrip(LStrip(s))

(***************************************************************************)
(* Requests.  state is request.state as a dict of its attributes, client   *)
(* is request.client.host (None when request.client is None), xff is       *)
(* request.headers.get("X-Forwarded-For"), path is request.url.path.       *)
(***************************************************************************)
HostA == <<"1", "0", ".", "1">>

HostB == <<"9", ".", "9">>

UserU == <<"u", "7">>

PathChat == <<"/", "a", "p", "i", "/", "v", "1", "/", "c", "h", "a", "t">>

PathHealthReady == HealthPrefix \o <<"/", "r">>

NoAttrs == [a \in {} |-> None]

MkRequest(state, client, xff, path) ==
    [state |-> state, client |-> client, xff |-> xff, path |-> path]

\* the requests the limiter is driven with
RLRequests ==
    { MkRequest(NoAttrs, HostA, None, PathChat),
      MkRequest([user |-> [user_id |-> UserU]], HostA, None, PathChat),
      MkRequest(NoAttrs, HostA, None, PathHealthReady) }

(***************************************************************************)
(* RateLimitMiddleware._get_client_id                                      *)
(***************************************************************************)
_get_client_id(request) ==
    IF "user" \in DOMAIN request.state
    THEN UserPrefix \o Format(DictGet(request.state.user, "user_id", Unknown))
    ELSE LET host == IF request.client # None THEN request.client ELSE Unknown
             client_ip == IF Truthy(request.xff)
                          THEN Strip(FirstToken(request.xff))
                          ELSE host
         IN  IpPrefix \o Format(client_ip)

(***************************************************************************)
(* The store: self.requests, a defaultdict(list).  A function whose domain *)
(* is the set of keys present.                                             *)
(***************************************************************************)
\* d[k] of a defaultdict(list), as a value
Get(d, k) == IF k \in DOMAIN d THEN d[k] ELSE <<>>

\* d[k] = v
Put(d, k, v) == [j \in DOMAIN d \cup {k} |-> IF j = k THEN v ELSE d[j]]

\* mutant: the window is twice as long
InWindow_TwoWindows(ts, cutoff_time) == ts > cutoff_time - window_size

\* mutant: the window's lower end is closed
InWindow_Closed(ts, cutoff_time) == ts >= cutoff_time

\* the comprehension's condition: ts > cutoff_time
InWindow(ts, cutoff_time) == ts > cutoff_time

\* mutant: the comprehension's filter is lost
Recent_KeepsAll(seq, cutoff_time) == seq

\* [ts for ts in seq if ts > cutoff_time]
Recent(seq, cutoff_time) == SelectSeq(seq, LAMBDA ts : InWindow(ts, cutoff_time))

\* mutant: every request is let through
IsAllowed_Always(current_count, limit) == TRUE

\* mutant: off by one, <= for <
IsAllowed_OffByOne(current_count, limit) == current_count <= limit

\* current_count < self.requests_per_minute
IsAllowed(current_count, limit) == current_count < limit

\* the guard of _cleanup_old_requests: it returns early unless this holds
CleanupDue(current_time, last) == ~(current_time - last < cleanup_interval)

\* mutant: the cleanup empties the store
Pruned_DropsAll(d, cutoff_time) == [k \in {} |-> <<>>]

\* mutant: the del of an emptied key is lost
Pruned_KeepsEmptyKeys(d, cutoff_time) == [k \in DOMAIN d |-> Recent(d[k], cutoff_time)]

\* the loop of _cleanup_old_requests over list(self.requests.keys())
Pruned(d, cutoff_time) ==
    LET f == [k \in DOMAIN d |-> Recent(d[k], cutoff_time)]
    IN  [k \in {j \in DOMAIN f : f[j] # <<>>} |-> f[k]]

\* mutant: the cleanup stamps last_cleanup and prunes nothing
_cleanup_old_requests_PrunesNothing(d, last, current_time) ==
    IF CleanupDue(current_time, last)
    THEN [requests |-> d, last_cleanup |-> current_time]
    ELSE [requests |-> d, last_cleanup |-> last]

\* _cleanup_old_requests: the store and last_cleanup it leaves
_cleanup_old_requests(d, last, current_time) ==
    IF CleanupDue(current_time, last)
    THEN [requests |-> Pruned(d, current_time - window_size), last_cleanup |-> current_time]
    ELSE [requests |-> d, last_cleanup |-> last]

\* mutant: the append is not guarded by is_allowed
_check_rate_limit_RecordsDenied(d, client_id, current_time, limit) ==
    LET cutoff_time == current_time - window_size
        recent_requests == Recent(Get(d, client_id), cutoff_time)
        current_count == Len(recent_requests)
        is_allowed == IsAllowed(current_count, limit)
    IN  [requests |-> Put(d, client_id, Append(recent_requests, current_time)),
         is_allowed |-> is_allowed,
         current_count |-> current_count + (IF is_allowed THEN 1 ELSE 0),
         limit |-> limit]

\* _check_rate_limit: the store it leaves and the triple it returns
_check_rate_limit(d, client_id, current_time, limit) ==
    LET cutoff_time == current_time - window_size
        recent_requests == Recent(Get(d, client_id), cutoff_time)
        current_count == Len(recent_requests)
        is_allowed == IsAllowed(current_count, limit)
    IN  [requests |-> Put(d, client_id,
                          IF is_allowed THEN Append(recent_requests, current_time)
                                        ELSE recent_requests),
         is_allowed |-> is_allowed,
         current_count |-> current_count + (IF is_allowed THEN 1 ELSE 0),
         limit |-> limit]

\* max(0, remaining)
Max0(n) == IF n > 0 THEN n ELSE 0

\* mutant: the operands of the subtraction are swapped
RateLimitHeaders_Swapped(limit, current_count, current_time) ==
    [limit |-> limit,
     remaining |-> Max0(current_count - limit),
     reset |-> current_time + window_size]

\* the three headers dispatch adds to the response of an admitted request
RateLimitHeaders(limit, current_count, current_time) ==
    [limit |-> limit,
     remaining |-> Max0(limit - current_count),
     reset |-> current_time + window_size]

\* the JSONResponse of a denied request: status, body retry_after, headers
Response429(limit, current_time) ==
    [status |-> StatusTooManyRequests,
     retry_after |-> RetryAfterLiteral,
     headers |-> [limit |-> limit, remaining |-> 0,
                  reset |-> current_time + RetryAfterLiteral,
                  retry_after |-> RetryAfterLiteral]]

\* mutant: the path is compared for equality
IsExempt_ExactMatch(path) == path = HealthPrefix

\* request.url.path.startswith("/api/v1/health")
IsExempt(path) == StartsWith(path, HealthPrefix)

VARIABLES
    now,                  \* time.time()
    requests_per_minute,  \* self.requests_per_minute
    requests,             \* self.requests
    last_cleanup,         \* self.last_cleanup
    inflight,             \* dispatch coroutines suspended in call_next, with their locals
    resp,                 \* what the handler step just taken returned (and logged)
    run,                  \* history: per key, the current run of admitted requests
    denied_at,            \* history: per key, first denial since its last admission
    ident,                \* _get_client_id applied on its own: the request and the key
    usage_events,         \* the usage_events table: a bag of rows
    utc,                  \* datetime.utcnow()
    usage_out,            \* what the usage_tracking call just made returned
    chat                  \* send_chat_message: per process its handler's position and
                          \* locals, and the number of requests taken so far

rlvars == <<now, requests_per_minute, requests, last_cleanup, inflight, resp, run, denied_at>>

\* the variables the limiter's steps leave alone
nonrl == <<ident, usage_events, utc, usage_out, chat>>

vars == <<now, requests_per_minute, requests, last_cleanup, inflight, resp, run, denied_at,
          ident, usage_events, utc, usage_out, chat>>

NoResponse == [status |-> 0]

NoIdent == [client_id |-> None]

NoOut == [op |-> "none"]

EmptyStore == [k \in {} |-> <<>>]

\* the processes serving send_chat_message against the one usage_events table
Workers == {"p1", "p2"}

\* a process between two requests; status is what its last request returned
IdleHandler == [pc |-> "idle", status |-> 0, message_id |-> 0, input_tokens |-> 0,
                output_tokens |-> 0]

NoChat == [handler |-> [w \in Workers |-> IdleHandler], taken |-> 0]

\* __init__ at time 0, then no request until IdleUntil
Init ==
    /\ now = IdleUntil
    /\ requests_per_minute \in 1..MaxCeiling
    /\ requests = EmptyStore
    /\ last_cleanup = 0
    /\ inflight = <<>>
    /\ resp = NoResponse
    /\ run = EmptyStore
    /\ denied_at = EmptyStore
    /\ ident = NoIdent
    /\ usage_events = EmptyBag
    /\ utc = 0
    /\ usage_out = NoOut
    /\ chat = NoChat

(***************************************************************************)
(* History kept for the claims (no code reads it).                         *)
(* A run of key k is the requests admitted for k since all earlier ones    *)
(* were more than a window old.  While the run spans less than a window it *)
(* is [start, n, last]; after that only the time of its last admission is  *)
(* kept (start = -1, n = 0).  A run is forgotten once its last admission   *)
(* is more than a window old.                                              *)
(* denied_at[k] is [t, retried]: k was denied at t and not admitted since, *)
(* until retried (-1 before) is the time of its next admission; the entry  *)
(* is forgotten when the clock moves on from there.                        *)
(***************************************************************************)
RunAfterAdmit(r, k, t) ==
    Put(r, k,
        IF k \notin DOMAIN r THEN [start |-> t, n |-> 1, last |-> t]
        ELSE IF r[k].start >= 0 /\ t - r[k].start < window_size
             THEN [start |-> r[k].start, n |-> r[k].n + 1, last |-> t]
             ELSE [start |-> -1, n |-> 0, last |-> t])

RunAfterTick(r, t) ==
    [k \in {j \in DOMAIN r : t - r[j].last <= window_size} |->
        IF r[k].start >= 0 /\ t - r[k].start < window_size
        THEN r[k]
        ELSE [start |-> -1, n |-> 0, last |-> r[k].last]]

DeniedAfterDeny(d, k, t) ==
    IF k \in DOMAIN d /\ d[k].retried < 0 THEN d ELSE Put(d, k, [t |-> t, retried |-> -1])

DeniedAfterAdmit(d, k, t) ==
    IF k \in DOMAIN d /\ d[k].retried < 0 THEN Put(d, k, [t |-> d[k].t, retried |-> t]) ELSE d

DeniedAfterTick(d) == [k \in {j \in DOMAIN d : d[j].retried < 0} |-> d[k]]

(***************************************************************************)
(* The environment advances the clock.                                     *)
(***************************************************************************)
Tick ==
    /\ now + TickSeconds <= MaxTime
    /\ now' = now + TickSeconds
    /\ run' = RunAfterTick(run, now + TickSeconds)
    /\ denied_at' = DeniedAfterTick(denied_at)
    /\ resp' = NoResponse
    /\ UNCHANGED <<requests_per_minute, requests, last_cleanup, inflight>>
    /\ UNCHANGED nonrl

(***************************************************************************)
(* RateLimitMiddleware.dispatch up to its await of call_next: the exempt   *)
(* path, or cleanup, identification and the admission check, which run     *)
(* without suspension.  A denied request is answered at once.              *)
(***************************************************************************)
DispatchWithin(request, capacity) ==
    /\ Len(inflight) < capacity
    /\ IF IsExempt(request.path)
       THEN /\ inflight' = Append(inflight, [request |-> request, pc |-> "exempt"])
            /\ resp' = NoResponse
            /\ UNCHANGED <<requests, last_cleanup, run, denied_at>>
       ELSE LET c == _cleanup_old_requests(requests, last_cleanup, now)
                client_id == _get_client_id(request)
                chk == _check_rate_limit(c.requests, client_id, now, requests_per_minute)
            IN  /\ requests' = chk.requests
                /\ last_cleanup' = c.last_cleanup
                /\ IF ~chk.is_allowed
                   THEN /\ resp' = [response |-> Response429(chk.limit, now),
                                    status |-> StatusTooManyRequests,
                                    log |-> [client_id |-> client_id,
                                             path |-> request.path,
                                             current_count |-> chk.current_count,
                                             limit |-> chk.limit]]
                        /\ denied_at' = DeniedAfterDeny(denied_at, client_id, now)
                        /\ UNCHANGED <<inflight, run>>
                   ELSE /\ inflight' = Append(inflight,
                                              [request |-> request, pc |-> "limited",
                                               client_id |-> client_id,
                                               current_count |-> chk.current_count,
                                               limit |-> chk.limit])
                        /\ resp' = NoResponse
                        /\ run' = RunAfterAdmit(run, client_id, now)
                        /\ denied_at' = DeniedAfterAdmit(denied_at, client_id, now)
    /\ UNCHANGED <<now, requests_per_minute>>
    /\ UNCHANGED nonrl

Dispatch(request) == DispatchWithin(request, MaxInflight)

RemoveAt(s, i) == SubSeq(s, 1, i - 1) \o SubSeq(s, i + 1, Len(s))

(***************************************************************************)
(* call_next returns: the exempt path hands the response on as it is, the  *)
(* limited path adds the rate-limit headers.                               *)
(***************************************************************************)
Complete(i) ==
    /\ i \in 1..Len(inflight)
    /\ LET f == inflight[i]
       IN  resp' = IF f.pc = "exempt"
                   THEN [status |-> StatusOK, ctx |-> f]
                   ELSE [status |-> StatusOK, ctx |-> f,
                         headers |-> RateLimitHeaders(f.limit, f.current_count, now)]
    /\ inflight' = RemoveAt(inflight, i)
    /\ UNCHANGED <<now, requests_per_minute, requests, last_cleanup, run, denied_at>>
    /\ UNCHANGED nonrl

(***************************************************************************)
(* call_next raises, or the request is cancelled while awaiting it: the    *)
(* exception leaves dispatch; no response is built and nothing is undone.  *)
(***************************************************************************)
\* mutant: the failed request's timestamp is taken back
DownstreamFails_Retracts(i) ==
    /\ i \in 1..Len(inflight)
    /\ resp' = [status |-> 0, raised |-> TRUE, ctx |-> inflight[i]]
    /\ inflight' = RemoveAt(inflight, i)
    /\ requests' =
           IF inflight[i].pc = "limited" /\ Get(requests, inflight[i].client_id) # <<>>
           THEN Put(requests, inflight[i].client_id,
                    SubSeq(requests[inflight[i].client_id], 1,
                           Len(requests[inflight[i].client_id]) - 1))
           ELSE requests
    /\ UNCHANGED <<now, requests_per_minute, last_cleanup, run, denied_at>>
    /\ UNCHANGED nonrl

DownstreamFails(i) ==
    /\ i \in 1..Len(inflight)
    /\ resp' = [status |-> 0, raised |-> TRUE, ctx |-> inflight[i]]
    /\ inflight' = RemoveAt(inflight, i)
    /\ UNCHANGED <<now, requests_per_minute, requests, last_cleanup, run, denied_at>>
    /\ UNCHANGED nonrl

Next ==
    \/ Tick
    \/ \E request \in RLRequests : Dispatch(request)
    \/ \E i \in 1..MaxInflight : Complete(i)
    \/ \E i \in 1..MaxInflight : DownstreamFails(i)

Spec == Init /\ [][Next]_vars

\* the same program with the clock running on and every downstream handler
\* returning; no request is ever forced to arrive
SpecLive ==
    /\ Init /\ [][Next]_vars
    /\ WF_vars(Tick)
    /\ WF_vars(\E i \in 1..MaxInflight : Complete(i) \/ DownstreamFails(i))

(***************************************************************************)
(* The limiter with requests overlapping in call_next.  The event loop     *)
(* runs one dispatch at a time up to its await, so the steps interleave    *)
(* only there.                                                             *)
(***************************************************************************)
ConcurrentRequests == {MkRequest(NoAttrs, HostA, None, PathChat)}

NextConcurrent ==
    \/ Tick
    \/ \E request \in ConcurrentRequests : DispatchWithin(request, MaxConcurrent)
    \/ \E i \in 1..MaxConcurrent : Complete(i)
    \/ \E i \in 1..MaxConcurrent : DownstreamFails(i)

SpecConcurrent == Init /\ [][NextConcurrent]_vars

(***************************************************************************)
(* _get_client_id on its own, over every combination of request.state,     *)
(* request.client and X-Forwarded-For below.                               *)
(***************************************************************************)
\* request.state.user as set by an authenticating layer: with a user id,
\* with an empty or None user id, and without the key
UserDicts ==
    { [user_id |-> UserU],
      [user_id |-> <<>>],
      [user_id |-> None],
      [org_id |-> <<"o", "1">>],
      [user_id |-> HostB, org_id |-> <<"o", "1">>] }

RequestStates == {NoAttrs} \cup {[user |-> u] : u \in UserDicts}

ClientHosts == {None, HostA, HostB}

ForwardedFor ==
    { None,
      <<>>,
      HostB,
      <<" ">> \o HostB \o <<" ", ",", " ">> \o HostA,
      HostB \o <<",">> \o HostA,
      <<",">> \o HostB,
      <<" ", " ">> }

IdentRequests ==
    {MkRequest(st, c, x, PathChat) : st \in RequestStates, c \in ClientHosts, x \in ForwardedFor}

Identify(request) ==
    /\ ident' = [request |-> request, client_id |-> _get_client_id(request)]
    /\ UNCHANGED <<rlvars, usage_events, utc, usage_out, chat>>

NextIdent == \E request \in IdentRequests : Identify(request)

SpecIdent == Init /\ [][NextIdent]_vars

(***************************************************************************)
(* usage_tracking: the event types, the tier table, the usage_events       *)
(* table (a bag of rows, which Supabase returns in no particular order),   *)
(* and the UTC clock.  A month has MonthUnits instants; instant t lies in  *)
(* month t \div MonthUnits.                                                *)
(***************************************************************************)
CSV_UPLOAD == "csv_upload"

CSV_ROW_PROCESSED == "csv_row_processed"

ANALYSIS_RUN == "analysis_run"

ANALYZER_EXECUTION == "analyzer_execution"

CHAT_MESSAGE == "chat_message"

AI_TOKENS_INPUT == "ai_tokens_input"

AI_TOKENS_OUTPUT == "ai_tokens_output"

MAPPING_PROFILE_CREATED == "mapping_profile_created"

MAPPING_PROFILE_USED == "mapping_profile_used"

EXPORT_PDF == "export_pdf"

EXPORT_CSV == "export_csv"

USAGE_LIMITS ==
    [trial |-> [csv_uploads_per_month |-> 5,
                csv_rows_per_month |-> 1000,
                analyses_per_month |-> 10,
                chat_messages_per_month |-> 50,
                ai_tokens_per_month |-> 100000,
                mapping_profiles |-> 3],
     pilot |-> [csv_uploads_per_month |-> 50,
                csv_rows_per_month |-> 50000,
                analyses_per_month |-> 100,
                chat_messages_per_month |-> 500,
                ai_tokens_per_month |-> 1000000,
                mapping_profiles |-> 20],
     subscription |-> [csv_uploads_per_month |-> -1,
                       csv_rows_per_month |-> -1,
                       analyses_per_month |-> -1,
                       chat_messages_per_month |-> -1,
                       ai_tokens_per_month |-> -1,
                       mapping_profiles |-> -1]]

limit_key_map_MetersExports ==
    [et \in {CSV_UPLOAD, CHAT_MESSAGE, EXPORT_PDF, EXPORT_CSV} |->
        CASE et = CSV_UPLOAD -> "csv_uploads_per_month"
          [] et = CHAT_MESSAGE -> "chat_messages_per_month"
          [] et = EXPORT_PDF -> "csv_uploads_per_month"
          [] et = EXPORT_CSV -> "csv_uploads_per_month"]

\* limit_key_map of check_usage_limit
limit_key_map ==
    [et \in {CSV_UPLOAD, CSV_ROW_PROCESSED, ANALYSIS_RUN, CHAT_MESSAGE,
             AI_TOKENS_INPUT, AI_TOKENS_OUTPUT, MAPPING_PROFILE_CREATED} |->
        CASE et = CSV_UPLOAD -> "csv_uploads_per_month"
          [] et = CSV_ROW_PROCESSED -> "csv_rows_per_month"
          [] et = ANALYSIS_RUN -> "analyses_per_month"
          [] et = CHAT_MESSAGE -> "chat_messages_per_month"
          [] et = AI_TOKENS_INPUT -> "ai_tokens_per_month"
          [] et = AI_TOKENS_OUTPUT -> "ai_tokens_per_month"
          [] et = MAPPING_PROFILE_CREATED -> "mapping_profiles"]

\* metadata=None
NoMetadata == [is_none |-> TRUE]

\* {}
EmptyDict == [a \in {} |-> None]

\* metadata or {}
MetadataOrEmpty(metadata) ==
    IF metadata = NoMetadata \/ metadata = EmptyDict THEN EmptyDict ELSE metadata

UsageEvent_UnitQuantity(org_id, event_type, quantity, metadata, utcnow) ==
    [org_id |-> org_id,
     event_type |-> event_type,
     quantity |-> 1,
     metadata |-> MetadataOrEmpty(metadata),
     created_at |-> utcnow]

\* the row track_usage_event inserts
UsageEvent(org_id, event_type, quantity, metadata, utcnow) ==
    [org_id |-> org_id,
     event_type |-> event_type,
     quantity |-> quantity,
     metadata |-> MetadataOrEmpty(metadata),
     created_at |-> utcnow]

Insert_Overwrite(table, event) == SetToBag({event})

\* table.insert(event).execute()
Insert(table, event) == table (+) SetToBag({event})

StartOfMonth_NeverResets(utcnow) == 0

\* datetime.utcnow().replace(day=1, hour=0, minute=0, second=0, microsecond=0)
StartOfMonth(utcnow) == utcnow - (utcnow % MonthUnits)

MonthRows_AnyOrg(table, org_id, event_type, start) ==
    {e \in BagToSet(table) : e.event_type = event_type /\ e.created_at >= start}

\* .eq("org_id", org_id).eq("event_type", event_type).gte("created_at", start)
MonthRows(table, org_id, event_type, start) ==
    {e \in BagToSet(table) :
        e.org_id = org_id /\ e.event_type = event_type /\ e.created_at >= start}

\* sum(event.get("quantity", 1) for event in response.data) over the rows
\* selected, each counted as often as the table holds it
RECURSIVE SumQuantity(_, _)
SumQuantity(table, rows) ==
    IF rows = {} THEN 0
    ELSE LET e == CHOOSE x \in rows : TRUE
         IN  CopiesIn(e, table) * e.quantity + SumQuantity(table, rows \ {e})

\* mutant: the comparison is lost
WithinLimit_Always(current_usage, limit) == TRUE

WithinLimit_Inclusive(current_usage, limit) == current_usage <= limit

\* within_limit = current_usage < limit
WithinLimit(current_usage, limit) == current_usage < limit

Decision(within_limit, current_usage, limit) ==
    [within_limit |-> within_limit, current_usage |-> current_usage, limit |-> limit]

TierLimits_DefaultsToTrial(tier) == DictGet(USAGE_LIMITS, tier, USAGE_LIMITS["trial"])

\* limits = USAGE_LIMITS.get(tier, USAGE_LIMITS["pilot"])
TierLimits(tier) == DictGet(USAGE_LIMITS, tier, USAGE_LIMITS["pilot"])

OnException_FailsClosed == Decision(FALSE, 0, 0)

\* except Exception: return True, 0, -1
OnException == Decision(TRUE, 0, -1)

\* whether check_usage_limit gets as far as its usage_events query: not for
\* an event type without a limit key, not for a limit of -1
ReachesQuery(event_type, tier) ==
    /\ event_type \in DOMAIN limit_key_map
    /\ DictGet(TierLimits(tier), limit_key_map[event_type], -1) # -1

\* check_usage_limit; storage_ok is whether the query's execute() succeeds
check_usage_limit(table, utcnow, org_id, event_type, tier, storage_ok) ==
    LET limits == TierLimits(tier)
    IN  IF event_type \notin DOMAIN limit_key_map
        THEN Decision(TRUE, 0, -1)
        ELSE LET limit == DictGet(limits, limit_key_map[event_type], -1)
             IN  IF limit = -1 THEN Decision(TRUE, 0, -1)
                 ELSE IF ~storage_ok THEN OnException
                 ELSE LET current_usage ==
                              SumQuantity(table,
                                  MonthRows(table, org_id, event_type, StartOfMonth(utcnow)))
                      IN  Decision(WithinLimit(current_usage, limit), current_usage, limit)

(***************************************************************************)
(* The inputs the usage functions are driven with.                         *)
(***************************************************************************)
OrgA == "org_a"

OrgB == "org_b"

Tiers == {"trial", "pilot", "subscription", "enterprise"}

\* (org, event type, quantity) of the track_usage_event calls
TrackInputs ==
    { <<OrgA, CHAT_MESSAGE, 1>>, <<OrgA, CHAT_MESSAGE, 49>>, <<OrgB, CHAT_MESSAGE, 1>>,
      <<OrgA, EXPORT_PDF, 1>> }

CheckTypes == {CHAT_MESSAGE, EXPORT_PDF}

(***************************************************************************)
(* track_usage_event: one row appended, or on a storage failure nothing;   *)
(* it returns None either way.                                             *)
(***************************************************************************)
TrackUsageEvent(org_id, event_type, quantity, metadata, storage_ok) ==
    /\ BagCardinality(usage_events) < MaxEvents
    /\ usage_events' =
           IF storage_ok
           THEN Insert(usage_events, UsageEvent(org_id, event_type, quantity, metadata, utc))
           ELSE usage_events
    /\ usage_out' = [op |-> "track", org_id |-> org_id, event_type |-> event_type,
                     quantity |-> quantity, metadata |-> metadata,
                     storage_ok |-> storage_ok, raised |-> FALSE]
    /\ UNCHANGED <<rlvars, ident, utc, chat>>

CheckUsageLimit(org_id, event_type, tier, storage_ok) ==
    /\ usage_out' = [op |-> "check", org_id |-> org_id, event_type |-> event_type,
                     tier |-> tier, storage_ok |-> storage_ok, raised |-> FALSE,
                     queried |-> ReachesQuery(event_type, tier),
                     result |-> check_usage_limit(usage_events, utc, org_id, event_type,
                                                  tier, storage_ok)]
    /\ UNCHANGED <<rlvars, ident, utc, usage_events, chat>>

UtcTick ==
    /\ utc < MaxUtc
    /\ utc' = utc + 1
    /\ usage_out' = NoOut
    /\ UNCHANGED <<rlvars, ident, usage_events, chat>>

NextUsage ==
    \/ UtcTick
    \/ \E t \in TrackInputs, storage_ok \in BOOLEAN :
          TrackUsageEvent(t[1], t[2], t[3], NoMetadata, storage_ok)
    \/ \E event_type \in CheckTypes, tier \in Tiers, storage_ok \in BOOLEAN :
          CheckUsageLimit(OrgA, event_type, tier, storage_ok)

SpecUsage == Init /\ [][NextUsage]_vars

(***************************************************************************)
(* get_usage_summary.  Its query names no order, so the rows come back in  *)
(* any order; the loop folds over them in the order returned.              *)
(***************************************************************************)
\* start_date = datetime.utcnow() - timedelta(days=days)
StartDate(utcnow, days) == utcnow - days * DayUnits

\* .eq("org_id", org_id).gte("created_at", start_date)
RangeRows(table, org_id, start_date) ==
    [e \in {x \in DOMAIN table : x.org_id = org_id /\ x.created_at >= start_date}
        |-> table[e]]

\* the orders in which the rows selected can be returned
Enumerations(rows) ==
    {data \in [1..BagCardinality(rows) -> DOMAIN rows] :
        \A e \in DOMAIN rows : Cardinality({i \in DOMAIN data : data[i] = e}) = rows[e]}

\* events = response.data or []
EventsOrEmpty(data) == IF Len(data) = 0 THEN <<>> ELSE data

\* max(a, b) of two creation timestamps
MaxOf(a, b) == IF a >= b THEN a ELSE b

\* the body of the loop over events
AggregateEvent(summary, event) ==
    LET event_type == event.event_type
        quantity == event.quantity
        started ==
            IF event_type \notin DOMAIN summary
            THEN summary @@ (event_type :> [count |-> 0,
                                            total_quantity |-> 0,
                                            first_event |-> event.created_at,
                                            last_event |-> event.created_at])
            ELSE summary
    IN  [started EXCEPT ![event_type] =
            [count |-> @.count + 1,
             total_quantity |-> @.total_quantity + quantity,
             first_event |-> @.first_event,
             last_event |-> MaxOf(@.last_event, event.created_at)]]

\* for event in events: ...
RECURSIVE Aggregate(_, _)
Aggregate(summary, events) ==
    IF events = <<>> THEN summary
    ELSE Aggregate(AggregateEvent(summary, Head(events)), Tail(events))

SummaryResponse_ErrorWhenEmpty(org_id, days, events, utcnow) ==
    IF events = <<>>
    THEN [org_id |-> org_id, error |-> "no events", generated_at |-> utcnow]
    ELSE [org_id |-> org_id,
          period_days |-> days,
          total_events |-> Len(events),
          summary_by_type |-> Aggregate(EmptyDict, events),
          generated_at |-> utcnow]

\* the dictionary get_usage_summary returns
SummaryResponse(org_id, days, events, utcnow) ==
    [org_id |-> org_id,
     period_days |-> days,
     total_events |-> Len(events),
     summary_by_type |-> Aggregate(EmptyDict, events),
     generated_at |-> utcnow]

\* the dictionary get_usage_summary returns from its except branch
ErrorResponse(org_id, utcnow) ==
    [org_id |-> org_id, error |-> "storage", generated_at |-> utcnow]

\* get_usage_summary; data is response.data, in the order storage returned it
get_usage_summary(data, utcnow, org_id, days, storage_ok) ==
    IF storage_ok
    THEN SummaryResponse(org_id, days, EventsOrEmpty(data), utcnow)
    ELSE ErrorResponse(org_id, utcnow)

GetUsageSummary(org_id, days, storage_ok) ==
    /\ \E data \in Enumerations(RangeRows(usage_events, org_id, StartDate(utc, days))) :
          usage_out' = [op |-> "summary", org_id |-> org_id, days |-> days,
                        storage_ok |-> storage_ok, raised |-> FALSE, data |-> data,
                        result |-> get_usage_summary(data, utc, org_id, days, storage_ok)]
    /\ UNCHANGED <<rlvars, ident, utc, usage_events, chat>>

(***************************************************************************)
(* GET /usage/limits: six check_usage_limit calls for the tier "pilot",    *)
(* each with its own storage round trip, combined into one response.       *)
(***************************************************************************)
\* tier = "pilot"
EndpointTier == "pilot"

\* the calls of the handler, by the event type each passes
LimitCalls ==
    {CSV_UPLOAD, CSV_ROW_PROCESSED, ANALYSIS_RUN, CHAT_MESSAGE, AI_TOKENS_INPUT,
     AI_TOKENS_OUTPUT}

\* usage_checks[...] = {"current", "limit", "within_limit", "unit"}
UsageCheck(result, unit) ==
    [current |-> result.current_usage,
     limit |-> result.limit,
     within_limit |-> result.within_limit,
     unit |-> unit]

\* usage_checks["ai_tokens"]
AiTokensCheck(in, out) ==
    [current |-> in.current_usage + out.current_usage,
     limit |-> IF in.limit # -1 THEN in.limit ELSE -1,
     within_limit |-> in.within_limit /\ out.within_limit,
     unit |-> "tokens",
     breakdown |-> [input_tokens |-> in.current_usage,
                    output_tokens |-> out.current_usage]]

\* get_organization_usage_limits; storage[c] is whether the query of call c
\* succeeds
get_organization_usage_limits(table, utcnow, org_id, storage) ==
    LET tier == EndpointTier
        check(event_type) ==
            check_usage_limit(table, utcnow, org_id, event_type, tier, storage[event_type])
    IN  [org_id |-> org_id,
         tier |-> tier,
         limits |-> [csv_uploads |-> UsageCheck(check(CSV_UPLOAD), "uploads"),
                     csv_rows |-> UsageCheck(check(CSV_ROW_PROCESSED), "rows"),
                     analyses |-> UsageCheck(check(ANALYSIS_RUN), "analyses"),
                     chat_messages |-> UsageCheck(check(CHAT_MESSAGE), "messages"),
                     ai_tokens |-> AiTokensCheck(check(AI_TOKENS_INPUT),
                                                 check(AI_TOKENS_OUTPUT))],
         period |-> "current_month"]

GetOrganizationUsageLimits(org_id, storage) ==
    /\ usage_out' = [op |-> "limits", org_id |-> org_id, storage |-> storage,
                     raised |-> FALSE,
                     result |-> get_organization_usage_limits(usage_events, utc, org_id,
                                                              storage)]
    /\ UNCHANGED <<rlvars, ident, utc, usage_events, chat>>

\* token counts of the kind the chat endpoint records
TokenTrackInputs ==
    { <<OrgA, AI_TOKENS_INPUT, 60000>>, <<OrgA, AI_TOKENS_OUTPUT, 60000>>,
      <<OrgA, AI_TOKENS_INPUT, 600000>>, <<OrgA, AI_TOKENS_OUTPUT, 600000>> }

NextTokens ==
    \/ \E t \in TokenTrackInputs, storage_ok \in BOOLEAN :
          TrackUsageEvent(t[1], t[2], t[3], NoMetadata, storage_ok)
    \/ \E event_type \in {AI_TOKENS_INPUT, AI_TOKENS_OUTPUT}, tier \in {"trial", "pilot"},
          storage_ok \in BOOLEAN :
          CheckUsageLimit(OrgA, event_type, tier, storage_ok)
    \/ \E storage \in [LimitCalls -> BOOLEAN] : GetOrganizationUsageLimits(OrgA, storage)

SpecTokens == Init /\ [][NextTokens]_vars

(***************************************************************************)
(* track_usage_event called with any integer quantity: its signature is    *)
(* quantity: int = 1 and its body passes the value on as it is.            *)
(***************************************************************************)
Quantities == {-1, 0, 1, 2}

NextQuantity ==
    \/ UtcTick
    \/ \E quantity \in Quantities, event_type \in {CHAT_MESSAGE, AI_TOKENS_OUTPUT},
          storage_ok \in BOOLEAN :
          TrackUsageEvent(OrgA, event_type, quantity, NoMetadata, storage_ok)
    \/ \E storage_ok \in BOOLEAN : CheckUsageLimit(OrgA, CHAT_MESSAGE, "trial", storage_ok)

SpecQuantity == Init /\ [][NextQuantity]_vars

\* metadata of the kind the chat endpoint attaches
MessageMetadata == [message_id |-> "m1"]

\* (org, event type, quantity, metadata) of the track_usage_event calls
SummaryTrackInputs ==
    { <<OrgA, CHAT_MESSAGE, 1, NoMetadata>>, <<OrgA, CHAT_MESSAGE, 2, MessageMetadata>>,
      <<OrgA, CSV_UPLOAD, 3, EmptyDict>>, <<OrgB, CHAT_MESSAGE, 5, NoMetadata>> }

LookbackDays == {1, 2}

NextSummary ==
    \/ UtcTick
    \/ \E t \in SummaryTrackInputs, storage_ok \in BOOLEAN :
          TrackUsageEvent(t[1], t[2], t[3], t[4], storage_ok)
    \/ \E org_id \in {OrgA, OrgB}, storage_ok \in BOOLEAN :
          CheckUsageLimit(org_id, CHAT_MESSAGE, "trial", storage_ok)
    \/ \E org_id \in {OrgA, OrgB}, days \in LookbackDays, storage_ok \in BOOLEAN :
          GetUsageSummary(org_id, days, storage_ok)
    \/ \E org_id \in {OrgA, OrgB}, storage_ok \in BOOLEAN :
          GetOrganizationUsageLimits(org_id, [c \in LimitCalls |-> storage_ok])

SpecSummary == Init /\ [][NextSummary]_vars

(***************************************************************************)
(* check_usage_limit over every event type and tier name, against tables   *)
(* that already hold usage of unmetered and of metered kinds.              *)
(***************************************************************************)
UnknownEventType == "no_such_event"

AllEventTypes ==
    {CSV_UPLOAD, CSV_ROW_PROCESSED, ANALYSIS_RUN, ANALYZER_EXECUTION, CHAT_MESSAGE,
     AI_TOKENS_INPUT, AI_TOKENS_OUTPUT, MAPPING_PROFILE_CREATED, MAPPING_PROFILE_USED,
     EXPORT_PDF, EXPORT_CSV, UnknownEventType}

AllTiers == Tiers \cup {"free", ""}

LimitsTrackInputs ==
    { <<OrgA, EXPORT_PDF, 7>>, <<OrgA, CSV_UPLOAD, 60>>, <<OrgA, UnknownEventType, 1>> }

NextLimits ==
    \/ \E t \in LimitsTrackInputs, storage_ok \in BOOLEAN :
          TrackUsageEvent(t[1], t[2], t[3], NoMetadata, storage_ok)
    \/ \E event_type \in AllEventTypes, tier \in AllTiers, storage_ok \in BOOLEAN :
          CheckUsageLimit(OrgA, event_type, tier, storage_ok)

SpecLimits == Init /\ [][NextLimits]_vars

(***************************************************************************)
(* send_chat_message.  Every call the handler makes to the usage_events    *)
(* table or to the AI service is a blocking round trip; the steps below    *)
(* are the handler's code from one such call to the next.  Inside one      *)
(* process a handler never yields to another request, so the handlers      *)
(* that interleave are those of different processes sharing the table.     *)
(***************************************************************************)
MaxChatRequests == 3

\* tier="pilot" of the handler's check_usage_limit call
ChatTier == "pilot"

ChatModel == "claude-3-5-sonnet-20241022"

StatusServiceUnavailable == 503

StatusInternalError == 500

\* (input_tokens, output_tokens) of response.usage
TokenUsage == {<<12, 7>>}

\* track_usage_event as a function of the table: the row appended, or on a
\* storage failure the table as it was
track_usage_event(table, utcnow, org_id, event_type, quantity, metadata, storage_ok) ==
    IF storage_ok
    THEN Insert(table, UsageEvent(org_id, event_type, quantity, metadata, utcnow))
    ELSE table

\* the metadata of the three rows a chat request records; no analysis_id
\* is given, so context_text is empty
InputMetadata(h) ==
    [model |-> ChatModel, message_id |-> h.message_id, has_context |-> FALSE]

OutputMetadata(h) == [model |-> ChatModel, message_id |-> h.message_id]

MessageRowMetadata(h) ==
    [message_id |-> h.message_id, input_tokens |-> h.input_tokens,
     output_tokens |-> h.output_tokens, has_analysis_context |-> FALSE]

\* the handler of process w moves to position pc
Moved(w, h) == [chat EXCEPT !.handler[w] = h]

\* the handler of process w ends with an HTTP status
Ended(w, status) ==
    [chat EXCEPT !.handler[w] = [chat.handler[w] EXCEPT !.pc = "idle", !.status = status]]

\* mutant: the verdict of the quota check is ignored
ChatCheck_IgnoresVerdict(w, org_id, storage_ok) ==
    LET message_id == chat.taken + 1
        h == [pc |-> "call_ai", status |-> 0, message_id |-> message_id,
              input_tokens |-> 0, output_tokens |-> 0]
    IN  /\ chat.handler[w].pc = "idle"
        /\ chat.taken < MaxChatRequests
        /\ chat' = [handler |-> [chat.handler EXCEPT ![w] = h], taken |-> message_id]
        /\ UNCHANGED <<rlvars, ident, utc, usage_events, usage_out>>

\* lines 62-83: the quota check; not within the limit raises 429
ChatCheck(w, org_id, storage_ok) ==
    LET d == check_usage_limit(usage_events, utc, org_id, CHAT_MESSAGE, ChatTier, storage_ok)
        message_id == chat.taken + 1
        h == [pc |-> "call_ai", status |-> 0, message_id |-> message_id,
              input_tokens |-> 0, output_tokens |-> 0]
    IN  /\ chat.handler[w].pc = "idle"
        /\ chat.taken < MaxChatRequests
        /\ chat' = [handler |-> [chat.handler EXCEPT ![w] =
                                    IF d.within_limit THEN h
                                    ELSE [h EXCEPT !.pc = "idle",
                                                   !.status = StatusTooManyRequests]],
                    taken |-> message_id]
        /\ UNCHANGED <<rlvars, ident, utc, usage_events, usage_out>>

\* lines 166-200: the AI call; a failure raises 503
ChatCallAI(w, ok, usage) ==
    /\ chat.handler[w].pc = "call_ai"
    /\ chat' = IF ok
               THEN Moved(w, [chat.handler[w] EXCEPT !.pc = "track_input",
                                                     !.input_tokens = usage[1],
                                                     !.output_tokens = usage[2]])
               ELSE Ended(w, StatusServiceUnavailable)
    /\ UNCHANGED <<rlvars, ident, utc, usage_events, usage_out>>

\* lines 205-214
ChatTrackInput(w, org_id, storage_ok) ==
    /\ chat.handler[w].pc = "track_input"
    /\ usage_events' = track_usage_event(usage_events, utc, org_id, AI_TOKENS_INPUT,
                                         chat.handler[w].input_tokens,
                                         InputMetadata(chat.handler[w]), storage_ok)
    /\ chat' = Moved(w, [chat.handler[w] EXCEPT !.pc = "track_output"])
    /\ UNCHANGED <<rlvars, ident, utc, usage_out>>

\* lines 217-225
ChatTrackOutput(w, org_id, storage_ok) ==
    /\ chat.handler[w].pc = "track_output"
    /\ usage_events' = track_usage_event(usage_events, utc, org_id, AI_TOKENS_OUTPUT,
                                         chat.handler[w].output_tokens,
                                         OutputMetadata(chat.handler[w]), storage_ok)
    /\ chat' = Moved(w, [chat.handler[w] EXCEPT !.pc = "track_message"])
    /\ UNCHANGED <<rlvars, ident, utc, usage_out>>

\* lines 228-238
ChatTrackMessage(w, org_id, storage_ok) ==
    /\ chat.handler[w].pc = "track_message"
    /\ usage_events' = track_usage_event(usage_events, utc, org_id, CHAT_MESSAGE, 1,
                                         MessageRowMetadata(chat.handler[w]), storage_ok)
    /\ chat' = Moved(w, [chat.handler[w] EXCEPT !.pc = "save"])
    /\ UNCHANGED <<rlvars, ident, utc, usage_out>>

\* lines 243-301: the chat_messages insert and the audit log, then the
\* response; an exception in them is answered with 500
ChatSave(w, ok) ==
    /\ chat.handler[w].pc = "save"
    /\ chat' = Ended(w, IF ok THEN StatusOK ELSE StatusInternalError)
    /\ UNCHANGED <<rlvars, ident, utc, usage_events, usage_out>>

\* the month's ceiling the handler checks against
ChatLimit == USAGE_LIMITS[ChatTier]["chat_messages_per_month"]

\* the row of a chat message recorded earlier in the month
EarlierMessageRow ==
    UsageEvent(OrgA, CHAT_MESSAGE, 1,
               [message_id |-> 0, input_tokens |-> 12, output_tokens |-> 7,
                has_analysis_context |-> FALSE], 0)

\* the organization starts one or two messages short of the ceiling
EarlierMessages == {ChatLimit - 2, ChatLimit - 1}

InitChat ==
    /\ now = IdleUntil
    /\ requests_per_minute \in 1..MaxCeiling
    /\ requests = EmptyStore
    /\ last_cleanup = 0
    /\ inflight = <<>>
    /\ resp = NoResponse
    /\ run = EmptyStore
    /\ denied_at = EmptyStore
    /\ ident = NoIdent
    /\ usage_events \in {(EarlierMessageRow :> n) : n \in EarlierMessages}
    /\ utc = 0
    /\ usage_out = NoOut
    /\ chat = NoChat

\* the steps of the handler of process w after its quota check
ChatSteps(w, storages) ==
    \/ \E ok \in BOOLEAN, usage \in TokenUsage : ChatCallAI(w, ok, usage)
    \/ \E storage_ok \in storages : ChatTrackInput(w, OrgA, storage_ok)
    \/ \E storage_ok \in storages : ChatTrackOutput(w, OrgA, storage_ok)
    \/ \E storage_ok \in storages : ChatTrackMessage(w, OrgA, storage_ok)
    \/ \E ok \in BOOLEAN : ChatSave(w, ok)

\* processes serving chat requests of one organization side by side, with
\* the table available; the AI call and the final save may fail
NextChat ==
    \/ \E w \in Workers : ChatCheck(w, OrgA, TRUE)
    \/ \E w \in Workers : ChatSteps(w, {TRUE})

SpecChat == InitChat /\ [][NextChat]_vars

\* every other request has finished recording its usage
RecordingDone(w) == \A v \in Workers \ {w} : chat.handler[v].pc \in {"idle", "save"}

\* the same requests handled one at a time, with the table available
NextChatSequential ==
    \/ UtcTick
    \/ \E w \in Workers : RecordingDone(w) /\ ChatCheck(w, OrgA, TRUE)
    \/ \E w \in Workers : ChatSteps(w, {TRUE})

SpecChatSequential == InitChat /\ [][NextChatSequential]_vars

(***************************************************************************)
(* The limiter and the chat handler of one process side by side: requests *)
(* of one client are admitted and then complete or fail in call_next,      *)
(* while chat requests run through their steps and end with a response or  *)
(* a failure.                                                              *)
(***************************************************************************)
ThisProcess == CHOOSE w \in Workers : TRUE

NextAdmitted ==
    \/ Tick
    \/ \E request \in ConcurrentRequests : Dispatch(request)
    \/ \E i \in 1..MaxInflight : Complete(i)
    \/ \E i \in 1..MaxInflight : DownstreamFails(i)
    \/ ChatCheck(ThisProcess, OrgA, TRUE)
    \/ ChatSteps(ThisProcess, {TRUE})

SpecAdmitted == InitChat /\ [][NextAdmitted]_vars

(***************************************************************************)
(* Vocabulary of the claims about the limiter.                             *)
(***************************************************************************)
\* the keys the limiter's requests map to
Keys == {_get_client_id(request) : request \in {r \in RLRequests : ~StartsWith(r.path, HealthPrefix)}}

\* count(key, now): the number _check_rate_limit would compare with the ceiling
Count(d, k, t) == Len(Recent(Get(d, k), t - window_size))

\* this step admitted a request of key k (it now awaits call_next)
AdmitStep(k) ==
    /\ Len(inflight') = Len(inflight) + 1
    /\ inflight'[Len(inflight')].pc = "limited"
    /\ inflight'[Len(inflight')].client_id = k

\* this step denied a request of key k
DenyStep(k) == resp'.status = StatusTooManyRequests /\ resp'.log.client_id = k

\* every request admitted for k so far that is not older than a window lies
\* in a span shorter than the window ending now; RunCount is their number
RunFresh(k) == k \notin DOMAIN run \/ (run[k].start >= 0 /\ now - run[k].start < window_size)

RunCount(k) == IF k \in DOMAIN run THEN run[k].n ELSE 0

Occurrences(seq, x) == Cardinality({i \in DOMAIN seq : seq[i] = x})

IsPrefix(p, seq) == Len(p) <= Len(seq) /\ SubSeq(seq, 1, Len(p)) = p

\* C1: while the requests admitted for a key lie in a span shorter than the
\* window, the next request of that key is denied iff their number N has
\* reached requests_per_minute; an admitted request returns N + 1 as
\* current_count, a denied one N.
C1_AdmissionIffBelowCeiling ==
    [][\A k \in Keys :
          (AdmitStep(k) \/ DenyStep(k)) /\ RunFresh(k) =>
              /\ DenyStep(k) <=> RunCount(k) >= requests_per_minute
              /\ AdmitStep(k) => inflight'[Len(inflight')].current_count = RunCount(k) + 1
              /\ DenyStep(k) => resp'.log.current_count = RunCount(k)]_vars

\* C1 witness: a request was denied at the end of a run of exactly
\* requests_per_minute (> 1) admitted requests spanning less than a window
C1_Witness ==
    /\ resp.status = StatusTooManyRequests
    /\ requests_per_minute > 1
    /\ resp.log.client_id \in DOMAIN run
    /\ run[resp.log.client_id].start >= 0
    /\ run[resp.log.client_id].start < now
    /\ run[resp.log.client_id].n = requests_per_minute

\* C2: a denial leaves count(key, now) of every key as it was, records no
\* timestamp (nothing at all is added to the denied key's sequence), and
\* the admission check neither creates nor removes a key of the store it
\* was given (the store after the cleanup phase of the same dispatch).
C2_DenialLeavesStore ==
    [][\A k \in Keys :
          DenyStep(k) =>
              /\ \A j \in Keys : Count(requests', j, now) = Count(requests, j, now)
              /\ Occurrences(Get(requests', k), now) = Occurrences(Get(requests, k), now)
              /\ Len(Get(requests', k)) <= Len(Get(requests, k))
              /\ DOMAIN requests' =
                     DOMAIN _cleanup_old_requests(requests, last_cleanup, now).requests
              /\ k \in DOMAIN requests' /\ k \in DOMAIN requests]_vars

\* C2 witness: a key stands denied, with a stale timestamp of another key
\* still stored beside it
C2_Witness ==
    /\ resp.status = StatusTooManyRequests
    /\ Count(requests, resp.log.client_id, now) >= requests_per_minute
    /\ \E j \in DOMAIN requests : j # resp.log.client_id /\ Count(requests, j, now) = 0

\* C3: a request of key k made window_size seconds or more after k was
\* denied, with no request of k admitted in between, is admitted; the
\* denial advertises exactly that delay.
C3_RetryAfterSuffices ==
    [][\A k \in Keys :
          /\ (AdmitStep(k) \/ DenyStep(k)) /\ k \in DOMAIN denied_at
                /\ denied_at[k].retried < 0 /\ now >= denied_at[k].t + window_size
                => AdmitStep(k)
          /\ DenyStep(k) => /\ resp'.response.retry_after = window_size
                            /\ resp'.response.headers.retry_after = window_size]_vars

\* C3 witness: a key denied at t was admitted again exactly window_size later
C3_Witness ==
    \E k \in DOMAIN denied_at :
        /\ denied_at[k].retried = denied_at[k].t + window_size
        /\ now = denied_at[k].retried
        /\ requests[k] = <<now>>

\* the newest timestamp stored for a key is at least a window old
AllAged(seq, t) == \A i \in DOMAIN seq : t >= seq[i] + window_size

\* C4 (as amended): once the clock is window_size or more past the newest
\* timestamp recorded for a key (in the store, and in the history of its
\* admissions), count(key, now) is 0.
C4_NoStaleResidue ==
    \A k \in Keys :
        /\ AllAged(Get(requests, k), now) => Count(requests, k, now) = 0
        /\ (k \notin DOMAIN run \/ now >= run[k].last + window_size)
               => Count(requests, k, now) = 0

\* C4 witness: timestamps that have aged out are still stored, and count 0
C4_Witness ==
    \E k \in DOMAIN requests :
        /\ Len(requests[k]) > 1
        /\ AllAged(requests[k], now)
        /\ Count(requests, k, now) = 0

\* C4 as stated: count(key, now) is 0 once the clock is more than
\* window_size past the oldest timestamp recorded for the key.
C4_AsStated ==
    \A k \in DOMAIN requests :
        (requests[k] # <<>> /\ now > requests[k][1] + window_size)
            => Count(requests, k, now) = 0

\* this step ran the cleanup loop
CleanupStep == last_cleanup' # last_cleanup

\* C5 (as amended): a cleanup at time now keeps every stored timestamp of
\* the window (now - window_size, now], in order, and leaves no key with an
\* empty sequence.
C5_CleanupKeepsWindow ==
    [][CleanupStep =>
          /\ \A k \in DOMAIN requests :
                LET kept == SelectSeq(requests[k],
                                      LAMBDA ts : ts > now - window_size /\ ts <= now)
                IN  kept # <<>> => k \in DOMAIN requests' /\ IsPrefix(kept, requests'[k])
          /\ \A k \in DOMAIN requests' : requests'[k] # <<>>]_vars

\* C5 witness: a cleanup has just run and removed one key while another,
\* with a timestamp from before the cleanup, is still stored
C5_Witness ==
    /\ last_cleanup = now
    /\ \E k \in DOMAIN run : k \notin DOMAIN requests
    /\ \E k \in DOMAIN requests : requests[k][1] < now

\* C5 as stated: the window kept is the closed [now - window_size, now].
C5_AsStated ==
    [][CleanupStep =>
          /\ \A k \in DOMAIN requests :
                LET kept == SelectSeq(requests[k],
                                      LAMBDA ts : ts >= now - window_size /\ ts <= now)
                IN  kept # <<>> => k \in DOMAIN requests' /\ IsPrefix(kept, requests'[k])
          /\ \A k \in DOMAIN requests' : requests'[k] # <<>>]_vars

\* request.state.user holds a user id that is neither None nor empty
HasUserId(request) ==
    /\ "user" \in DOMAIN request.state
    /\ "user_id" \in DOMAIN request.state.user
    /\ request.state.user.user_id # None
    /\ request.state.user.user_id # <<>>

\* C6 as stated: a request with a present, non-empty user id gets exactly
\* user:<id> whatever its X-Forwarded-For header and transport address are; a
\* request without one never gets a user: key; every key has exactly one of
\* the forms user:<id> and ip:<address>.
C6_AsStated ==
    "request" \in DOMAIN ident =>
        LET request == ident.request
            key == ident.client_id
        IN  /\ HasUserId(request) => key = UserPrefix \o request.state.user.user_id
            /\ ~HasUserId(request) => ~StartsWith(key, UserPrefix)
            /\ StartsWith(key, UserPrefix) # StartsWith(key, IpPrefix)

\* the address the unauthenticated rule resolves: the first comma-separated
\* token of a non-empty X-Forwarded-For header, trimmed, else the transport
\* address, else nothing
ResolvedAddress(request) ==
    IF request.xff # None /\ request.xff # <<>> THEN Strip(FirstToken(request.xff))
    ELSE IF request.client # None THEN request.client
    ELSE <<>>

\* C7 as stated: a request without an authenticated user gets ip:<address>
\* with the address resolved as above, and ip:unknown when no address is
\* resolvable, so that the address part of an ip: key is never empty.
C7_AsStated ==
    ("request" \in DOMAIN ident /\ "user" \notin DOMAIN ident.request.state) =>
        LET request == ident.request
            key == ident.client_id
            address == ResolvedAddress(request)
        IN  /\ key = IpPrefix \o (IF address = <<>> THEN Unknown ELSE address)
            /\ Len(key) > Len(IpPrefix)

\* C8: a request whose path starts with /api/v1/health is handed to
\* call_next, and neither that step nor its completion changes the store,
\* last_cleanup or the ceiling, whatever the counts are and even when a
\* cleanup is due.
C8_ExemptLeavesLimiter ==
    [][/\ \A request \in RLRequests :
            StartsWith(request.path, HealthPrefix) /\ Dispatch(request) =>
                /\ UNCHANGED <<requests, last_cleanup, requests_per_minute>>
                /\ resp'.status # StatusTooManyRequests
                /\ Len(inflight') = Len(inflight) + 1
                /\ inflight'[Len(inflight')].request = request
       /\ \A i \in 1..Len(inflight) :
            StartsWith(inflight[i].request.path, HealthPrefix)
                /\ (Complete(i) \/ DownstreamFails(i)) =>
                /\ UNCHANGED <<requests, last_cleanup, requests_per_minute>>
                /\ "headers" \notin DOMAIN resp']_vars

\* C8 witness: an exempt request is with call_next while the key of the
\* same client is at its ceiling and a cleanup is due
C8_Witness ==
    /\ inflight # <<>>
    /\ StartsWith(inflight[Len(inflight)].request.path, HealthPrefix)
    /\ CleanupDue(now, last_cleanup)
    /\ Count(requests, IpPrefix \o HostA, now) >= requests_per_minute

\* C9: the response of an admitted request carries limit = the ceiling,
\* remaining = max(0, ceiling - observed count) >= 0 and reset = now +
\* window_size; a denied request gets status 429 with the same limit,
\* remaining 0, reset = now + window_size, retry-after = window_size (body
\* and header), and is not handed to call_next.
C9_Headers ==
    [][/\ \A i \in 1..Len(inflight) :
            ~StartsWith(inflight[i].request.path, HealthPrefix) /\ Complete(i) =>
                /\ "headers" \in DOMAIN resp'
                /\ resp'.headers.limit = requests_per_minute
                /\ resp'.headers.remaining =
                       (IF requests_per_minute - inflight[i].current_count > 0
                        THEN requests_per_minute - inflight[i].current_count ELSE 0)
                /\ resp'.headers.remaining >= 0
                /\ resp'.headers.reset = now + window_size
       /\ \A k \in Keys :
            DenyStep(k) =>
                /\ resp'.response.status = 429
                /\ resp'.response.headers.limit = requests_per_minute
                /\ resp'.response.headers.remaining = 0
                /\ resp'.log.current_count >= requests_per_minute
                /\ resp'.response.headers.reset = now + window_size
                /\ resp'.response.headers.retry_after = window_size
                /\ resp'.response.retry_after = window_size
                /\ inflight' = inflight]_vars

\* C9 witness: an admitted request that used the last slot got remaining 0
C9_Witness ==
    /\ resp.status = StatusOK
    /\ "headers" \in DOMAIN resp
    /\ resp.headers.remaining = 0
    /\ requests_per_minute > 1
    /\ resp.headers.limit = requests_per_minute
    /\ resp.ctx.current_count = requests_per_minute

\* the quantity the table holds for an organization and an event type in
\* the month of the instant utcnow
Month(t) == t \div MonthUnits

RECURSIVE TotalQuantity(_)
TotalQuantity(bag) ==
    IF DOMAIN bag = {} THEN 0
    ELSE LET e == CHOOSE x \in DOMAIN bag : TRUE
         IN  bag[e] * e.quantity + TotalQuantity([x \in DOMAIN bag \ {e} |-> bag[x]])

UsedThisMonth(org_id, event_type) ==
    TotalQuantity([e \in {x \in DOMAIN usage_events :
                             /\ x.org_id = org_id
                             /\ x.event_type = event_type
                             /\ Month(x.created_at) = Month(utc)} |-> usage_events[e]])

\* the ceiling of a tier for an event type, -1 where there is none
Ceiling(tier, event_type) ==
    IF event_type \notin DOMAIN limit_key_map THEN -1
    ELSE (IF tier \in DOMAIN USAGE_LIMITS THEN USAGE_LIMITS[tier] ELSE USAGE_LIMITS["pilot"])
             [limit_key_map[event_type]]

\* C10: with storage available and a finite ceiling L, check_usage_limit
\* returns the quantity recorded this month for the organization and event
\* type as current_usage and L as limit, computed from the table as it is at
\* the call; at L-1 it returns (true, L-1, L), at L it returns (false, L, L),
\* and for trial chat messages that is (true, 49, 50) and (false, 50, 50).
C10_StrictLessThan ==
    (usage_out.op = "check" /\ usage_out.storage_ok
        /\ Ceiling(usage_out.tier, usage_out.event_type) # -1) =>
        LET L == Ceiling(usage_out.tier, usage_out.event_type)
            used == UsedThisMonth(usage_out.org_id, usage_out.event_type)
            result == usage_out.result
        IN  /\ result.current_usage = used
            /\ result.limit = L
            /\ used = L - 1 => result = Decision(TRUE, L - 1, L)
            /\ used = L => result = Decision(FALSE, L, L)
            /\ (usage_out.tier = "trial" /\ usage_out.event_type = CHAT_MESSAGE) =>
                   /\ L = 50
                   /\ used = 49 => result = Decision(TRUE, 49, 50)
                   /\ used = 50 => result = Decision(FALSE, 50, 50)

\* C10 witness: a trial organization that had 49 chat messages recorded has
\* one more recorded afterwards, and the check that follows returns
\* (false, 50, 50)
C10_Witness ==
    /\ usage_out.op = "check" /\ usage_out.storage_ok
    /\ usage_out.tier = "trial" /\ usage_out.event_type = CHAT_MESSAGE
    /\ usage_out.result = Decision(FALSE, 50, 50)
    /\ \E e, f \in DOMAIN usage_events :
          /\ e.quantity = 49 /\ f.quantity = 1
          /\ e.org_id = usage_out.org_id /\ f.org_id = usage_out.org_id
          /\ e.created_at < f.created_at

\* the first instant of the month the clock is in, and the last of the month
\* before it
FirstInstant == Month(utc) * MonthUnits

LastOfPriorMonth == FirstInstant - 1

\* the rows of an organization and an event type created at an instant
RowsAt(org_id, event_type, t) ==
    [e \in {x \in DOMAIN usage_events :
               x.org_id = org_id /\ x.event_type = event_type /\ x.created_at = t}
        |-> usage_events[e]]

\* C11: the current figure of a check with a finite ceiling and storage
\* available is the summed quantity of exactly the rows of that organization
\* and event type created at or after the first instant of the current
\* month: a row of the last instant of the month before is left out, a row
\* of the first instant is counted, and with no row since the first instant
\* the figure is 0.
C11_MonthlyAggregate ==
    (usage_out.op = "check" /\ usage_out.storage_ok
        /\ Ceiling(usage_out.tier, usage_out.event_type) # -1) =>
        LET org_id == usage_out.org_id
            event_type == usage_out.event_type
            counted == [e \in {x \in DOMAIN usage_events :
                                 /\ x.org_id = org_id
                                 /\ x.event_type = event_type
                                 /\ x.created_at >= FirstInstant} |-> usage_events[e]]
            current == usage_out.result.current_usage
        IN  /\ current = TotalQuantity(counted)
            /\ utc = FirstInstant =>
                   current = TotalQuantity(RowsAt(org_id, event_type, FirstInstant))
            /\ DOMAIN counted = {} => current = 0

\* C11 witness: at the first instant of a month the table holds a row of the
\* last instant of the month before and a row of the first instant, and the
\* check counts the second only
C11_Witness ==
    /\ usage_out.op = "check" /\ usage_out.storage_ok
    /\ Ceiling(usage_out.tier, usage_out.event_type) # -1
    /\ utc = FirstInstant /\ utc > 0
    /\ DOMAIN RowsAt(usage_out.org_id, usage_out.event_type, LastOfPriorMonth) # {}
    /\ DOMAIN RowsAt(usage_out.org_id, usage_out.event_type, FirstInstant) # {}
    /\ usage_out.result.current_usage =
           TotalQuantity(RowsAt(usage_out.org_id, usage_out.event_type, FirstInstant))

\* the quantity the table holds for an organization and an event type,
\* whenever recorded
UsedEver(org_id, event_type) ==
    TotalQuantity([e \in {x \in DOMAIN usage_events :
                             x.org_id = org_id /\ x.event_type = event_type}
                      |-> usage_events[e]])

\* C12: a check of an event type that has no entry in the event-to-limit
\* mapping, or of a resource whose ceiling for the tier is -1, returns
\* within_limit = true with limit = -1 whatever has been recorded before,
\* whether storage is available or not, and without its query being made.
C12_UnmeteredShortCircuit ==
    (usage_out.op = "check"
        /\ \/ usage_out.event_type \in
                  {ANALYZER_EXECUTION, MAPPING_PROFILE_USED, EXPORT_PDF, EXPORT_CSV,
                   UnknownEventType}
           \/ usage_out.tier = "subscription"
           \/ Ceiling(usage_out.tier, usage_out.event_type) = -1) =>
        /\ usage_out.result.within_limit = TRUE
        /\ usage_out.result.limit = -1
        /\ ~usage_out.queried

\* C12 witness: with 7 PDF exports recorded the export check is unmetered,
\* and with 60 uploads recorded (above the trial and pilot ceilings) so is
\* the subscription tier's upload check
C12_Witness ==
    /\ usage_out.op = "check" /\ usage_out.storage_ok
    /\ usage_out.result = Decision(TRUE, 0, -1)
    /\ \/ usage_out.event_type = EXPORT_PDF /\ UsedEver(usage_out.org_id, EXPORT_PDF) >= 7
       \/ /\ usage_out.event_type = CSV_UPLOAD /\ usage_out.tier = "subscription"
          /\ UsedEver(usage_out.org_id, CSV_UPLOAD) >= 60

\* C13: for a tier name other than trial, pilot and subscription the check
\* of a mapped event type is evaluated against pilot's ceilings: its limit is
\* pilot's value, not trial's and not -1, and its decision is
\* the one the pilot tier gets.
C13_UnknownTierIsPilot ==
    (usage_out.op = "check" /\ usage_out.storage_ok
        /\ usage_out.tier \notin {"trial", "pilot", "subscription"}
        /\ usage_out.event_type \in DOMAIN limit_key_map) =>
        LET key == limit_key_map[usage_out.event_type]
        IN  /\ usage_out.result.limit = USAGE_LIMITS["pilot"][key]
            /\ usage_out.result.limit # USAGE_LIMITS["trial"][key]
            /\ usage_out.result.limit # -1
            /\ usage_out.result =
                   check_usage_limit(usage_events, utc, usage_out.org_id,
                                     usage_out.event_type, "pilot", TRUE)

\* C13 witness: an organization of an unknown tier with 60 uploads recorded
\* is denied against pilot's ceiling of 50
C13_Witness ==
    /\ usage_out.op = "check" /\ usage_out.storage_ok
    /\ usage_out.tier = "free" /\ usage_out.event_type = CSV_UPLOAD
    /\ usage_out.result = Decision(FALSE, 60, 50)

\* C14: a check whose storage query fails returns (true, 0, -1); no check
\* raises to its caller; a denial is the value (false, current, limit) with
\* current at or above a finite limit.
C14_FailsOpen ==
    usage_out.op = "check" =>
        /\ ~usage_out.raised
        /\ (usage_out.queried /\ ~usage_out.storage_ok) =>
               usage_out.result = Decision(TRUE, 0, -1)
        /\ ~usage_out.result.within_limit =>
               /\ usage_out.storage_ok
               /\ usage_out.result.limit # -1
               /\ usage_out.result.current_usage >= usage_out.result.limit
               /\ usage_out.result.current_usage =
                      UsedThisMonth(usage_out.org_id, usage_out.event_type)

\* C14 witness: a trial organization with 50 chat messages this month, which
\* a working store would have denied, is allowed when the query fails
C14_Witness ==
    /\ usage_out.op = "check" /\ usage_out.queried /\ ~usage_out.storage_ok
    /\ usage_out.tier = "trial" /\ usage_out.event_type = CHAT_MESSAGE
    /\ UsedThisMonth(usage_out.org_id, CHAT_MESSAGE) = 50
    /\ usage_out.result = Decision(TRUE, 0, -1)

\* C15: a track_usage_event call never raises; when its insert fails the
\* log is left as it was; when it succeeds the log gains exactly one row,
\* carrying the organization, event type and quantity given and the metadata
\* given (an empty dictionary when none was given).
C15_TrackIsFailSilent ==
    [][usage_out'.op = "track" =>
          /\ ~usage_out'.raised
          /\ ~usage_out'.storage_ok => usage_events' = usage_events
          /\ usage_out'.storage_ok =>
                \E e \in DOMAIN usage_events' :
                    /\ usage_events' = usage_events (+) SetToBag({e})
                    /\ e.org_id = usage_out'.org_id
                    /\ e.event_type = usage_out'.event_type
                    /\ e.quantity = usage_out'.quantity
                    /\ e.metadata = (IF usage_out'.metadata = NoMetadata
                                     THEN EmptyDict ELSE usage_out'.metadata)
                    /\ e.created_at = utc]_vars

\* C15 witness: a call with metadata failed to persist, returned normally,
\* and the log holds what it held before and no row of the call
C15_Witness ==
    /\ usage_out.op = "track" /\ ~usage_out.storage_ok /\ ~usage_out.raised
    /\ usage_out.metadata = MessageMetadata
    /\ BagCardinality(usage_events) >= 1
    /\ \A e \in DOMAIN usage_events : e.metadata # MessageMetadata

\* C16: every step leaves each row of the log in place with at least the
\* copies it had, and a step of check_usage_limit, of get_usage_summary or of
\* the usage-limits endpoint leaves the log exactly as it was.
C16_AppendOnly ==
    [][/\ usage_events \sqsubseteq usage_events'
       /\ usage_out'.op \in {"check", "summary", "limits"} =>
              usage_events' = usage_events]_vars

\* C16 witness: a log of two rows recorded at different instants has been
\* read by get_usage_summary
C16_Witness ==
    /\ usage_out.op = "summary" /\ usage_out.storage_ok
    /\ BagCardinality(usage_events) >= 2
    /\ \E e, f \in DOMAIN usage_events : e.created_at < f.created_at

\* the rows of one organization
OnlyOrg(table, org_id) ==
    [e \in {x \in DOMAIN table : x.org_id = org_id} |-> table[e]]

\* rows other organizations might have recorded
ForeignRows(org_id) ==
    {UsageEvent(o, et, q, NoMetadata, t) :
        o \in {OrgA, OrgB} \ {org_id}, et \in {CHAT_MESSAGE, CSV_UPLOAD},
        q \in {1, 50}, t \in 0..utc}

\* C17: what check_usage_limit and get_usage_summary return for an
\* organization is what they return from a log holding that organization's
\* rows only, and from that log with any row of another organization added:
\* logs that differ in other organizations' rows give the same result.
C17_ScopedPerOrganization ==
    /\ usage_out.op = "check" =>
          LET mine == OnlyOrg(usage_events, usage_out.org_id)
              f(table) == check_usage_limit(table, utc, usage_out.org_id,
                                            usage_out.event_type, usage_out.tier,
                                            usage_out.storage_ok)
          IN  /\ usage_out.result = f(mine)
              /\ \A row \in ForeignRows(usage_out.org_id) :
                    usage_out.result = f(mine (+) SetToBag({row}))
    /\ usage_out.op = "summary" =>
          LET mine == OnlyOrg(usage_events, usage_out.org_id)
              start == StartDate(utc, usage_out.days)
          IN  /\ usage_out.data \in Enumerations(RangeRows(mine, usage_out.org_id, start))
              /\ \A row \in ForeignRows(usage_out.org_id) :
                    usage_out.data \in
                        Enumerations(RangeRows(mine (+) SetToBag({row}),
                                               usage_out.org_id, start))
              /\ usage_out.result =
                     get_usage_summary(usage_out.data, utc, usage_out.org_id,
                                       usage_out.days, usage_out.storage_ok)

\* C17 witness: organization A is checked while the log holds chat messages
\* of A and of B in the same month, and A's figure is A's alone
C17_Witness ==
    /\ usage_out.op = "check" /\ usage_out.storage_ok /\ usage_out.org_id = OrgA
    /\ UsedThisMonth(OrgB, CHAT_MESSAGE) > 0
    /\ UsedThisMonth(OrgA, CHAT_MESSAGE) > 0
    /\ usage_out.result.current_usage = UsedThisMonth(OrgA, CHAT_MESSAGE)

\* the rows of an organization in the lookback range, and those of one type
InRange(org_id, days) == RangeRows(usage_events, org_id, StartDate(utc, days))

GroupOf(org_id, days, event_type) ==
    [e \in {x \in DOMAIN InRange(org_id, days) : x.event_type = event_type}
        |-> usage_events[e]]

TypesOf(rows) == {e.event_type : e \in DOMAIN rows}

MinCreated(rows) ==
    CHOOSE t \in {e.created_at : e \in DOMAIN rows} :
        \A e \in DOMAIN rows : t <= e.created_at

MaxCreated(rows) ==
    CHOOSE t \in {e.created_at : e \in DOMAIN rows} :
        \A e \in DOMAIN rows : t >= e.created_at

RECURSIVE SumCounts(_, _)
SumCounts(summary, types) ==
    IF types = {} THEN 0
    ELSE LET et == CHOOSE x \in types : TRUE
         IN  summary[et].count + SumCounts(summary, types \ {et})

\* C19 as stated: whatever the order in which storage returns the rows, the
\* summary has one group per event type present in range, with count = the
\* number of rows, total quantity = the sum of their quantities, first-seen =
\* the minimum and last-seen = the maximum creation timestamp of the group,
\* and total_events = the sum of the counts.
C19_AsStated ==
    (usage_out.op = "summary" /\ usage_out.storage_ok) =>
        LET rows == InRange(usage_out.org_id, usage_out.days)
            summary == usage_out.result.summary_by_type
        IN  /\ DOMAIN summary = TypesOf(rows)
            /\ \A et \in DOMAIN summary :
                  LET group == GroupOf(usage_out.org_id, usage_out.days, et)
                  IN  /\ summary[et].count = BagCardinality(group)
                      /\ summary[et].total_quantity = TotalQuantity(group)
                      /\ summary[et].first_event = MinCreated(group)
                      /\ summary[et].last_event = MaxCreated(group)
            /\ usage_out.result.total_events = SumCounts(summary, DOMAIN summary)
            /\ usage_out.result.total_events = BagCardinality(rows)

\* C20: for an organization with no row in range get_usage_summary returns,
\* without raising and without an error field, the organization, the
\* lookback, total_events = 0, an empty per-type aggregate and the time.
C20_EmptySummary ==
    (usage_out.op = "summary" /\ usage_out.storage_ok
        /\ DOMAIN InRange(usage_out.org_id, usage_out.days) = {}) =>
        /\ ~usage_out.raised
        /\ DOMAIN usage_out.result =
               {"org_id", "period_days", "total_events", "summary_by_type", "generated_at"}
        /\ usage_out.result.org_id = usage_out.org_id
        /\ usage_out.result.period_days = usage_out.days
        /\ usage_out.result.total_events = 0
        /\ DOMAIN usage_out.result.summary_by_type = {}
        /\ usage_out.result.generated_at = utc

\* C20 witness: the log holds rows, of another organization or older than
\* the lookback, and the organization asked about has none in range
C20_Witness ==
    /\ usage_out.op = "summary" /\ usage_out.storage_ok
    /\ DOMAIN InRange(usage_out.org_id, usage_out.days) = {}
    /\ usage_events # EmptyBag
    /\ usage_out.result.total_events = 0

\* the input and output tokens together that an organization has recorded
\* this month
CombinedTokens(org_id) ==
    UsedThisMonth(org_id, AI_TOKENS_INPUT) + UsedThisMonth(org_id, AI_TOKENS_OUTPUT)

\* C18 as stated: with a finite ai_tokens_per_month = L and storage
\* available, a check of ai_tokens_input or of ai_tokens_output is denied
\* once the organization's input and output tokens of the month together
\* reach L; and the usage-limits endpoint reports ai_tokens.within_limit =
\* false whenever the combined current it reports is at or above the finite
\* limit it reports.
C18_AsStated ==
    /\ (usage_out.op = "check" /\ usage_out.storage_ok
           /\ usage_out.event_type \in {AI_TOKENS_INPUT, AI_TOKENS_OUTPUT}
           /\ Ceiling(usage_out.tier, usage_out.event_type) # -1
           /\ CombinedTokens(usage_out.org_id)
                  >= Ceiling(usage_out.tier, usage_out.event_type)) =>
          ~usage_out.result.within_limit
    /\ (usage_out.op = "limits"
           /\ usage_out.result.limits.ai_tokens.limit # -1
           /\ usage_out.result.limits.ai_tokens.current
                  >= usage_out.result.limits.ai_tokens.limit) =>
          ~usage_out.result.limits.ai_tokens.within_limit

\* C21 as stated: every row of the usage event log has a quantity of at
\* least 1.
C21_AsStated == \A e \in DOMAIN usage_events : e.quantity >= 1

\* the timestamps a store holds for a key
StampsOf(d, k) == {Get(d, k)[i] : i \in DOMAIN Get(d, k)}

\* C22: no step loses or duplicates a timestamp that is still inside the
\* window: for every key, each such timestamp is stored after the step as
\* often as before it, plus once for the request the step admits; this holds
\* for the step whose cleanup removes the key and admits a request of it, and
\* for steps taken while other requests of the key are in call_next.
C22_NoLostInsertion ==
    [][\A k \in Keys :
          /\ \A t \in {ts \in StampsOf(requests, k) \cup StampsOf(requests', k) \cup {now} :
                          ts > now' - window_size} :
                Occurrences(Get(requests', k), t) =
                    Occurrences(Get(requests, k), t)
                        + (IF AdmitStep(k) /\ t = now THEN 1 ELSE 0)
          /\ AdmitStep(k) =>
                /\ k \in DOMAIN requests'
                /\ requests'[k][Len(requests'[k])] = now]_vars

\* C22 witness: while an earlier request of the key is still in call_next, a
\* cleanup has just found the key's timestamps aged out and removed the key,
\* and the request admitted in the same step has its timestamp in the store
C22_Witness ==
    \E k \in Keys :
        /\ Len(inflight) = 2
        /\ \A i \in DOMAIN inflight : inflight[i].pc = "limited" /\ inflight[i].client_id = k
        /\ last_cleanup = now
        /\ k \in DOMAIN requests /\ requests[k] = <<now>>

\* C23 (as amended): the window an admission check at time now counts and
\* keeps is the half-open (now - window_size, now]: of the timestamps stored
\* for the key, exactly those newer than now - window_size remain stored
\* and are counted; a timestamp exactly window_size old is dropped.
C23_HalfOpenWindow ==
    [][\A k \in Keys :
          (AdmitStep(k) \/ DenyStep(k)) =>
              LET counted == {i \in DOMAIN Get(requests, k) :
                                 Get(requests, k)[i] > now - window_size}
              IN  /\ \A t \in StampsOf(requests, k) :
                         t \in StampsOf(requests', k) <=> t > now - window_size
                  /\ AdmitStep(k) =>
                         inflight'[Len(inflight')].current_count = Cardinality(counted) + 1
                  /\ DenyStep(k) => resp'.log.current_count = Cardinality(counted)]_vars

\* C23 witness: with a ceiling of 1 a key was denied at the first instant
\* (so it held a timestamp of that instant), and its request exactly
\* window_size later was admitted as the only counted one
C23_Witness ==
    \E k \in DOMAIN denied_at :
        /\ requests_per_minute = 1
        /\ denied_at[k].t = IdleUntil
        /\ now = IdleUntil + window_size
        /\ denied_at[k].retried = now
        /\ Len(inflight) = 1 /\ inflight[1].client_id = k /\ inflight[1].current_count = 1
        /\ Get(requests, k) = <<now>>

\* C23 as stated: the window is the closed [now - window_size, now].
C23_AsStated ==
    [][\A k \in Keys :
          (AdmitStep(k) \/ DenyStep(k)) =>
              LET counted == {i \in DOMAIN Get(requests, k) :
                                 Get(requests, k)[i] >= now - window_size}
              IN  /\ \A t \in StampsOf(requests, k) :
                         t \in StampsOf(requests', k) <=> t >= now - window_size
                  /\ AdmitStep(k) =>
                         inflight'[Len(inflight')].current_count = Cardinality(counted) + 1
                  /\ DenyStep(k) => resp'.log.current_count = Cardinality(counted)]_vars

\* the sequence never steps down
NonDecreasing(seq) == \A i, j \in DOMAIN seq : i < j => seq[i] <= seq[j]

\* every timestamp of the sequence lies in the window (t - window_size, t]
OnlyInWindow(seq, t) == \A i \in DOMAIN seq : seq[i] > t - window_size /\ seq[i] <= t

\* C24: in every reachable state every key's sequence is non-decreasing;
\* right after an admission check of a key that key's sequence holds only
\* in-window timestamps, and right after a cleanup every key left in the
\* store holds only in-window timestamps.
C24_SortedAndPruned ==
    /\ [](\A k \in DOMAIN requests : NonDecreasing(requests[k]))
    /\ [][/\ \A k \in Keys :
                (AdmitStep(k) \/ DenyStep(k)) => OnlyInWindow(Get(requests', k), now)
          /\ CleanupStep => \A k \in DOMAIN requests' : OnlyInWindow(requests'[k], now)]_vars

\* C24 witness: a cleanup has just run during the admission check of one
\* key, and another key keeps two timestamps of different instants, both
\* in the window
C24_Witness ==
    /\ last_cleanup = now
    /\ Len(inflight) = 1 /\ inflight[1].pc = "limited"
    /\ \E k \in DOMAIN requests :
          /\ k # inflight[1].client_id
          /\ Len(requests[k]) = 2
          /\ requests[k][1] < requests[k][2]
          /\ requests[k][1] > now - window_size

\* C25 as stated: every key whose timestamps have all aged out is
\* eventually removed from the store, whether or not a request ever
\* arrives again.
C25_AsStated ==
    \A k \in Keys :
        (k \in DOMAIN requests /\ AllAged(requests[k], now)) ~> (k \notin DOMAIN requests)

\* the number of timestamps of the sequence inside the half-open (lo, hi]
StoredWithin(seq, lo, hi) == Cardinality({i \in DOMAIN seq : seq[i] > lo /\ seq[i] <= hi})

\* C28 (as amended): for every key and every half-open interval
\* (t, t + window_size], at most requests_per_minute requests are admitted
\* inside it.  Stated on the store: no step drops a timestamp that is newer
\* than now - window_size, an admission adds exactly the current time, so
\* the store holds every admission of the last window; every window-long
\* half-open interval holds at most requests_per_minute stored timestamps,
\* the request a step admits included; and a run of admissions spanning
\* less than a window never exceeds the ceiling.
C28_SlidingWindowBound ==
    /\ [](\A k \in Keys :
            /\ \A i \in DOMAIN Get(requests, k) :
                  StoredWithin(Get(requests, k), Get(requests, k)[i] - window_size,
                               Get(requests, k)[i]) <= requests_per_minute
            /\ Count(requests, k, now) <= requests_per_minute
            /\ RunFresh(k) => RunCount(k) <= requests_per_minute)
    /\ [][\A k \in Keys :
            /\ \A t \in {ts \in StampsOf(requests, k) : ts > now' - window_size} :
                  Occurrences(Get(requests', k), t) >= Occurrences(Get(requests, k), t)
            /\ AdmitStep(k) =>
                  /\ StoredWithin(Get(requests, k), now - window_size, now) + 1
                         <= requests_per_minute
                  /\ Occurrences(Get(requests', k), now)
                         = Occurrences(Get(requests, k), now) + 1]_vars

\* C28 witness: with a ceiling of 2 a key was denied while it held two
\* timestamps in the window, and was admitted again less than a window
\* later, once the older of the two had aged out: it is at the ceiling again
C28_Witness ==
    \E k \in DOMAIN denied_at :
        /\ requests_per_minute = 2
        /\ denied_at[k].retried = now
        /\ denied_at[k].t < now /\ now - denied_at[k].t < window_size
        /\ Len(Get(requests, k)) = 2
        /\ Count(requests, k, now) = requests_per_minute

\* C28 as stated, with the interval of length window_size taken closed:
\* the request a step admits and the admissions stored from the last
\* window_size seconds, both ends included, are at most requests_per_minute.
C28_AsStated ==
    [][\A k \in Keys :
          AdmitStep(k) =>
              Cardinality({i \in DOMAIN Get(requests, k) :
                              Get(requests, k)[i] >= now - window_size}) + 1
                  <= requests_per_minute]_vars

\* the handler of process w has passed its quota check and not yet recorded
\* its chat_message row
BetweenCheckAndRecord(w) ==
    chat.handler[w].pc \in {"call_ai", "track_input", "track_output", "track_message"}

\* this step is the quota check of process w, passed
CheckPassedStep(w) == chat.handler[w].pc = "idle" /\ chat'.handler[w].pc = "call_ai"

\* this step is the chat_message insert of process w
RecordStep(w) == chat.handler[w].pc = "track_message" /\ chat'.handler[w].pc = "save"

\* C27: nothing is held between a handler's quota check and its recording:
\* a passed check leaves the table as it was, while one handler is between
\* check and record another process can run its own check, and the record
\* adds its row whatever the aggregate has become meanwhile.  The aggregate
\* can therefore pass the ceiling L, by at most one less than the number of
\* processes.
C27_CheckThenRecordUnlocked ==
    /\ [](/\ UsedThisMonth(OrgA, CHAT_MESSAGE) <= ChatLimit + Cardinality(Workers) - 1
          /\ \A w, v \in Workers :
                BetweenCheckAndRecord(w) /\ chat.handler[v].pc = "idle"
                    /\ chat.taken < MaxChatRequests
                => ENABLED ChatCheck(v, OrgA, TRUE))
    /\ [][\A w \in Workers :
            /\ CheckPassedStep(w) =>
                  /\ usage_events' = usage_events
                  /\ UsedThisMonth(OrgA, CHAT_MESSAGE) < ChatLimit
            /\ RecordStep(w) =>
                  UsedThisMonth(OrgA, CHAT_MESSAGE)' = UsedThisMonth(OrgA, CHAT_MESSAGE) + 1]_vars

\* C27 witness: the month started at L - 1, two requests were taken, both
\* recorded their message, and the aggregate is L + 1: both checks ran
\* before either insert
C27_Witness ==
    /\ CopiesIn(EarlierMessageRow, usage_events) = ChatLimit - 1
    /\ chat.taken = 2
    /\ \A w \in Workers : chat.handler[w].pc \in {"save", "idle"}
    /\ UsedThisMonth(OrgA, CHAT_MESSAGE) = ChatLimit + 1

\* the rows the request with this message_id has recorded
RowsOfRequest(m) == {e \in DOMAIN usage_events : e.metadata.message_id = m}

\* C29: a chat request whose quota check is not within the limit ends with
\* 429 in that same step, without reaching the AI call and without a row;
\* rows are only written by a handler past a successful AI call, each for
\* its own request; a handler whose AI call failed ends with 503 and its
\* request has no row, then or later.
C29_GatingOrder ==
    /\ [](\A w \in Workers :
             \/ chat.handler[w].pc = "call_ai"
             \/ chat.handler[w].status \in {StatusTooManyRequests, StatusServiceUnavailable}
             => RowsOfRequest(chat.handler[w].message_id) = {})
    /\ [][/\ \A w \in Workers :
               /\ chat.handler[w].pc = "idle" /\ chat'.handler[w] # chat.handler[w] =>
                     IF check_usage_limit(usage_events, utc, OrgA, CHAT_MESSAGE, ChatTier,
                                          TRUE).within_limit
                     THEN chat'.handler[w].pc = "call_ai" /\ usage_events' = usage_events
                     ELSE /\ chat'.handler[w].pc = "idle"
                          /\ chat'.handler[w].status = StatusTooManyRequests
                          /\ usage_events' = usage_events
               /\ chat'.handler[w].pc = "track_input" /\ chat.handler[w].pc # "track_input"
                     => chat.handler[w].pc = "call_ai"
               /\ chat.handler[w].pc = "call_ai" /\ chat'.handler[w].pc = "idle" =>
                     /\ chat'.handler[w].status = StatusServiceUnavailable
                     /\ usage_events' = usage_events
          /\ usage_events' # usage_events =>
               \E w \in Workers :
                   /\ chat.handler[w].pc \in {"track_input", "track_output", "track_message"}
                   /\ chat.handler[w].input_tokens > 0
                   /\ \A e \in DOMAIN usage_events' :
                         usage_events'[e] # CopiesIn(e, usage_events)
                             => e.metadata.message_id = chat.handler[w].message_id]_vars

\* C29 witness: one request was turned away with 429 at the ceiling, the
\* AI call of another failed with 503, and the only rows recorded are the
\* three of the request whose AI call succeeded
C29_Witness ==
    /\ \E w, v \in Workers :
          /\ chat.handler[w].pc = "idle" /\ chat.handler[w].status = StatusTooManyRequests
          /\ chat.handler[v].pc = "idle" /\ chat.handler[v].status = StatusServiceUnavailable
    /\ chat.taken = 3
    /\ BagCardinality(usage_events) - CopiesIn(EarlierMessageRow, usage_events) = 3

\* C30: with chat requests handled one at a time and the table available,
\* the chat_message quantity recorded for the organization in the current
\* month never exceeds the ceiling of the tier the handler checks against.
C30_NoOvershootSequential == UsedThisMonth(OrgA, CHAT_MESSAGE) <= ChatLimit

\* C30 witness: the month's aggregate stands at the ceiling after a request
\* of this run recorded its message, and the next request was turned away
C30_Witness ==
    /\ UsedThisMonth(OrgA, CHAT_MESSAGE) = ChatLimit
    /\ CopiesIn(EarlierMessageRow, usage_events) < ChatLimit
    /\ Month(utc) = 0
    /\ \E w \in Workers :
          chat.handler[w].pc = "idle" /\ chat.handler[w].status = StatusTooManyRequests

\* C26: nothing is taken back when an admitted request fails downstream.
\* The step in which call_next raises (or the request is cancelled) leaves
\* the store and every key's count as they were; while the admissions of a
\* key span less than a window, all of them are counted, whatever became
\* of the requests; no step removes a row from usage_events, and a chat
\* request that fails after recording ends with its three rows in the log.
C26_NotCompensated ==
    /\ [](\A k \in Keys :
             k \in DOMAIN run /\ RunFresh(k) => Count(requests, k, now) = RunCount(k))
    /\ [][/\ \A i \in 1..Len(inflight) :
               inflight[i].pc = "limited" /\ DownstreamFails(i) =>
                   /\ requests' = requests
                   /\ \A k \in Keys : Count(requests', k, now') = Count(requests, k, now)
          /\ \A e \in DOMAIN usage_events : CopiesIn(e, usage_events') >= usage_events[e]
          /\ \A w \in Workers :
               chat.handler[w].pc = "save" /\ chat'.handler[w].status = StatusInternalError =>
                   /\ usage_events' = usage_events
                   /\ Cardinality(RowsOfRequest(chat.handler[w].message_id)) = 3]_vars

\* C26 witness: an admitted request has just failed in call_next and its
\* timestamp keeps the key at the ceiling; a chat request has failed in its
\* final save and its three rows are in the log
C26_Witness ==
    /\ "raised" \in DOMAIN resp
    /\ resp.ctx.pc = "limited"
    /\ inflight = <<>>
    /\ Count(requests, resp.ctx.client_id, now) = requests_per_minute
    /\ chat.handler[ThisProcess].status = StatusInternalError
    /\ Cardinality(RowsOfRequest(chat.handler[ThisProcess].message_id)) = 3

====
